---------------------------- MODULE Spec2Model ----------------------------
(***************************************************************************)
(* A model of vim-methodstub: plugin/python/methodstub.py (definition     *)
(* stub generation) and plugin/methodstub/accessor.py (accessor naming).   *)
(*                                                                         *)
(* A Python string is a sequence of atoms.  An atom is a TLA+ string that  *)
(* the code never looks inside: one character where the code works on     *)
(* characters (field names, ' ', '*', '&', '<', '>', '(', ')', ...), one   *)
(* word elsewhere.  Concatenation of Python strings is \o.                 *)
(***************************************************************************)
EXTENDS Integers, Sequences, FiniteSets, TLC

VARIABLES
    \* accessor naming (accessor.py)
    field,        \* the spelling of the field cursor
    fieldType,    \* the spelling of its type
    accessor,     \* what generate_at_location printed: <<getter, setter>>, or <<>>
    \* file pairing (methodstub.py, get_corresponding_file .. make_fileset_for_source)
    fsName,       \* expand('%'): the edited file
    fsDisk,       \* the paths that exist on disk
    fsOpen,       \* the names of the open buffers
    fsInline,     \* the force_inline argument of the last call
    fileset,      \* the FileSet last built, or NoFileSet
    \* signature synthesis (methodstub.py, make_function_header)
    hdrFn,        \* the function cursor
    hdrInline,    \* the inline argument
    hdrNs,        \* the namespace argument
    hdrOut,       \* the header string returned, or NoStr
    \* stub generation in the editor (methodstub.py, generate_under_cursor,
    \* generate_range and what they call)
    buffers,      \* vim.buffers: path -> lines, <<>> when not open
    diskFiles,    \* the file system: path -> lines, <<>> when absent
    current,      \* the name of vim.current.buffer
    cursorLine,   \* the line of the cursor in the current window
    last,         \* what the last command, or step of a range, did
    rng,          \* the loop of generate_over_range: its line, end and tu
    ops           \* the number of commands invoked

namingVars == <<field, fieldType, accessor>>
fileVars   == <<fsName, fsDisk, fsOpen, fsInline, fileset>>
headerVars == <<hdrFn, hdrInline, hdrNs, hdrOut>>
editorVars == <<buffers, diskFiles, current, cursorLine, last, rng, ops>>
vars       == <<namingVars, fileVars, headerVars, editorVars>>

\* Python's None where a path is expected: split() never gives the empty list
NoFile == <<>>

-----------------------------------------------------------------------------
(* Sequences and Python string primitives                                  *)

Min(a, b) == IF a <= b THEN a ELSE b

\* s[a:b] of Python for 0 <= a, 0-based and half-open
Slice(s, a, b) == SubSeq(s, a + 1, Min(b, Len(s)))

\* the sequences over S of length at most n
SeqsUpTo(S, n) == UNION {[1..k -> S] : k \in 0..n}

\* str.find(sub): the lowest 0-based index where sub starts, or -1
Find(s, sub) ==
    LET hits == {i \in 0..(Len(s) - Len(sub)) : Slice(s, i, i + Len(sub)) = sub}
    IN  IF hits = {} THEN -1 ELSE CHOOSE i \in hits : \A j \in hits : i <= j

\* str.rfind(sub): the highest 0-based index where sub starts, or -1
RFind(s, sub) ==
    LET hits == {i \in 0..(Len(s) - Len(sub)) : Slice(s, i, i + Len(sub)) = sub}
    IN  IF hits = {} THEN -1 ELSE CHOOSE i \in hits : \A j \in hits : i >= j

RECURSIVE SplitAcc(_, _, _)
SplitAcc(s, sep, cur) ==
    IF s = <<>> THEN <<cur>>
    ELSE IF Head(s) = sep THEN <<cur>> \o SplitAcc(Tail(s), sep, <<>>)
    ELSE SplitAcc(Tail(s), sep, Append(cur, Head(s)))

\* str.split(sep) for a one-atom separator: ''.split('_') is ['']
Split(s, sep) == SplitAcc(s, sep, <<>>)

RECURSIVE Concat(_)
\* ''.join(list)
Concat(ss) == IF ss = <<>> THEN <<>> ELSE Head(ss) \o Concat(Tail(ss))

RECURSIVE Join(_, _)
\* sep.join(list), sep a string
Join(sep, ss) ==
    IF ss = <<>> THEN <<>>
    ELSE IF Len(ss) = 1 THEN Head(ss)
    ELSE Head(ss) \o sep \o Join(sep, Tail(ss))

Lowers == <<"a","b","c","d","e","f","g","h","i","j","k","l","m",
            "n","o","p","q","r","s","t","u","v","w","x","y","z">>
Uppers == <<"A","B","C","D","E","F","G","H","I","J","K","L","M",
            "N","O","P","Q","R","S","T","U","V","W","X","Y","Z">>

IsLower(c) == \E i \in 1..Len(Lowers) : Lowers[i] = c
IsUpper(c) == \E i \in 1..Len(Uppers) : Uppers[i] = c
ToUpper(c) == IF IsLower(c) THEN Uppers[CHOOSE i \in 1..Len(Lowers) : Lowers[i] = c] ELSE c
ToLower(c) == IF IsUpper(c) THEN Lowers[CHOOSE i \in 1..Len(Uppers) : Uppers[i] = c] ELSE c

RECURSIVE TitleAcc(_, _)
TitleAcc(s, prevCased) ==
    IF s = <<>> THEN <<>>
    ELSE LET c == Head(s) IN
         IF IsLower(c)
         THEN <<IF prevCased THEN c ELSE ToUpper(c)>> \o TitleAcc(Tail(s), TRUE)
         ELSE IF IsUpper(c)
         THEN <<IF prevCased THEN ToLower(c) ELSE c>> \o TitleAcc(Tail(s), TRUE)
         ELSE <<c>> \o TitleAcc(Tail(s), FALSE)

\* str.title(): a cased character is upper-cased when the character before
\* it is not cased, and lower-cased when it is
Title(s) == TitleAcc(s, FALSE)

-----------------------------------------------------------------------------
(* methodstub.py: format_type_name                                         *)

\* the first index i (0-based) holding '*' or '&' with i > 0 and a space
\* before it; the loop breaks there
format_type_name(old_name) ==
    LET hits == {i \in 1..(Len(old_name) - 1) :
                    /\ old_name[i + 1] \in {"*", "&"}
                    /\ old_name[i] = " "}
    IN  IF hits = {} THEN old_name
        ELSE LET i == CHOOSE h \in hits : \A j \in hits : h <= j
             IN  Slice(old_name, 0, i - 1) \o Slice(old_name, i, Len(old_name))

-----------------------------------------------------------------------------
(* accessor.py                                                              *)

GETTER == 0
SETTER == 1

get_method_name_from_field(field_name) ==
    LET stripped ==
            IF Find(field_name, <<"m", "_">>) = 0
            THEN Slice(field_name, 2, Len(field_name))
            ELSE IF Find(field_name, <<"_">>) = 0
            THEN Slice(field_name, 1, Len(field_name))
            ELSE IF RFind(field_name, <<"_">>) = Len(field_name) - 1
            THEN Slice(field_name, 0, Len(field_name) - 1)
            ELSE <<>>
        words == Split(stripped, "_")
        titled == [i \in 1..Len(words) |-> Title(words[i])]
    IN  Title(Concat(titled))

make_fn_decl(type_spelling, field_name, kind) ==
    LET type_name == format_type_name(type_spelling)
        name == get_method_name_from_field(field_name)
    IN  IF kind = GETTER
        THEN type_name \o <<" ">> \o <<"g","e","t">> \o name
                 \o <<"(", ")", " ", "const">>
        ELSE type_name \o <<" ">> \o <<"s","e","t">> \o name
                 \o <<"(">> \o type_name \o <<" ", "value", ")">>

-----------------------------------------------------------------------------
(* methodstub.py: file pairing.  A path is the list file_name.split('.')   *)
(* gives; an extension of the code's lists keeps its leading dot.          *)

header_ext == <<".hpp", ".hxx", ".h">>
source_ext == <<".cpp", ".cxx", ".c">>

\* file + new_ext, split on '.' again: new_ext is '.' followed by one word
Undot(e) ==
    CASE e = ".hpp" -> "hpp" [] e = ".hxx" -> "hxx" [] e = ".h" -> "h"
      [] e = ".cpp" -> "cpp" [] e = ".cxx" -> "cxx" [] e = ".c" -> "c"

\* '.'.join(parts) + new_ext as a path: ''.split('.') is [''], so an empty
\* stem is the one component ''
PlusExt(parts, new_ext) ==
    IF parts = <<>> THEN <<"", Undot(new_ext)>> ELSE Append(parts, Undot(new_ext))

InList(x, list) == \E i \in 1..Len(list) : list[i] = x

\* get_buffer_with_name(name) is not None
has_buffer_with_name(open, name) == name \in open

get_corresponding_file(file_name, extensions, open, disk) ==
    LET ext   == file_name[Len(file_name)]
        file  == SubSeq(file_name, 1, Len(file_name) - 1)
        found == {i \in 1..Len(extensions) :
                     LET new_file == PlusExt(file, extensions[i])
                     IN  has_buffer_with_name(open, new_file) \/ new_file \in disk}
    IN  IF InList(ext, extensions) THEN file_name
        ELSE IF found = {} THEN NoFile
        ELSE PlusExt(file, extensions[CHOOSE i \in found : \A j \in found : i <= j])

get_header_file(file_name, open, disk) ==
    get_corresponding_file(file_name, header_ext, open, disk)

get_source_file(file_name, open, disk) ==
    get_corresponding_file(file_name, source_ext, open, disk)

\* FileSet.__init__
FileSet(source, header, input, output) ==
    [source |-> source, header |-> header, input |-> input, output |-> output]

NoFileSet == FileSet(NoFile, NoFile, NoFile, NoFile)

is_input_header(files)  == files.header = files.input
is_output_header(files) == files.header = files.output

\* `if source_file and not force_inline` without the force_inline test
MakeFilesetIgnoringInline(file_name, force_inline, open, disk) ==
    LET header_file == get_header_file(file_name, open, disk)
        source_file == get_source_file(file_name, open, disk)
        parse_file  == IF source_file # NoFile THEN source_file ELSE header_file
    IN  FileSet(source_file, header_file, file_name, parse_file)

\* make_fileset_for_source; os.path.abspath leaves the model's paths, which
\* are absolute, as they are
make_fileset_for_source(file_name, force_inline, open, disk) ==
    LET header_file == get_header_file(file_name, open, disk)
        source_file == get_source_file(file_name, open, disk)
        parse_file  == IF source_file # NoFile /\ ~force_inline
                       THEN source_file ELSE header_file
    IN  FileSet(source_file, header_file, file_name, parse_file)

-----------------------------------------------------------------------------
(* methodstub.py: the signature synthesizer.  A function cursor is a       *)
(* record                                                                   *)
(*   kind, spelling, result_type, params (the PARM_DECL children: type and *)
(*   name), targs (the TEMPLATE_TYPE_PARAMETER children), tokens           *)
(*   (get_tokens), parents (the semantic_parent chain, nearest first, each *)
(*   with kind, spelling and targs; the translation unit is left out).     *)

\* Python's None where a string is expected
NoStr == <<"<None>">>

FunctionKinds ==
    {"FUNCTION_DECL", "FUNCTION_TEMPLATE", "CXX_METHOD", "DESTRUCTOR", "CONSTRUCTOR"}

is_cursor_function(cursor) == cursor.kind \in FunctionKinds

\* get_template_args(cursor): cursor is a function or one of its parents
get_template_args(cursor) == cursor.targs

get_args_list(fn_cursor) ==
    LET arg(i) ==
            LET child     == fn_cursor.params[i]
                type_name == format_type_name(child.type)
            IN  IF child.name # <<>>
                THEN Join(<<" ">>, <<type_name, child.name>>)
                ELSE Join(<<" ">>, <<type_name>>)
    IN  Join(<<",", " ">>, [i \in 1..Len(fn_cursor.params) |-> arg(i)])

get_template_declaration(cursor) ==
    LET template_args == get_template_args(cursor)
    IN  IF Len(template_args) > 0
        THEN <<"template", "<", "typename", " ">>
                 \o Join(<<",", " ", "typename">>, template_args) \o <<">">>
        ELSE NoStr

IsClass(cur) == cur.kind = "CLASS_DECL" \/ cur.kind = "CLASS_TEMPLATE"

\* the semantic parent of a function at namespace scope or of a free function
\* has no template arguments; the translation unit is the parent when the
\* chain is empty
SemanticParent(cursor) ==
    IF cursor.parents = <<>>
    THEN [kind |-> "TRANSLATION_UNIT", spelling |-> <<>>, targs |-> <<>>]
    ELSE cursor.parents[1]

\* the names the while loop appends: the classes of the chain, nearest first
ClassNamesWalk(cursor) ==
    LET classes == SelectSeq(cursor.parents, IsClass)
    IN  [i \in 1..Len(classes) |-> classes[i].spelling]

get_member_class_name(cursor) ==
    LET name == ClassNamesWalk(cursor)
        template_args == get_template_args(SemanticParent(cursor))
    IN  IF Len(name) > 0
        THEN Join(<<"::">>, name)
                 \o (IF Len(template_args) > 0
                     THEN <<"<">> \o Join(<<",", " ">>, template_args) \o <<">">>
                     ELSE <<>>)
        ELSE NoStr

RECURSIVE StripEnd(_, _, _)
\* the for loop of strip_template_args from 0-based index i at the given
\* depth: the index where the depth returns to 0, or -1
StripEnd(fn_name, i, depth) ==
    IF i >= Len(fn_name) THEN -1
    ELSE LET ch == fn_name[i + 1]
             d  == IF ch = "<" THEN depth + 1
                   ELSE IF ch = ">" THEN depth - 1 ELSE depth
         IN  IF d = 0 THEN i ELSE StripEnd(fn_name, i + 1, d)

strip_template_args(fn_name) ==
    LET start == Find(fn_name, <<"<">>)
    IN  IF start = -1 THEN fn_name
        ELSE LET end == StripEnd(fn_name, start, 0)
             IN  IF end > 0
                 THEN Slice(fn_name, 0, start) \o Slice(fn_name, end + 1, Len(fn_name))
                 ELSE fn_name

RECURSIVE SpecifierScan(_, _, _)
\* the token loop of add_function_specifiers on the deque header
SpecifierScan(tokens, depth, header) ==
    IF tokens = <<>> THEN header
    ELSE LET t == Head(tokens) IN
         IF t = "{" THEN header
         ELSE IF t = "(" THEN SpecifierScan(Tail(tokens), depth + 1, header)
         ELSE IF t = ")" THEN SpecifierScan(Tail(tokens), depth - 1, header)
         ELSE IF t = "const" /\ depth = 0
         THEN SpecifierScan(Tail(tokens), depth, Append(header, <<" ", "const">>))
         ELSE IF t = "noexcept" /\ depth = 0
         THEN SpecifierScan(Tail(tokens), depth, Append(header, <<" ", "noexcept">>))
         ELSE IF t = "constexpr" /\ depth = 0
         THEN SpecifierScan(Tail(tokens), depth, <<<<"constexpr", " ">>>> \o header)
         ELSE SpecifierScan(Tail(tokens), depth, header)

add_function_specifiers(fn_cursor, header) ==
    SpecifierScan(fn_cursor.tokens, 0, header)

\* make_function_header; the deque fn_header is a sequence of strings
\* header.appendleft(piece) under a condition
AppendLeftIf(cond, piece, header) == IF cond THEN <<piece>> \o header ELSE header

\* header.extend(pieces) under a condition
ExtendIf(cond, pieces, header) == IF cond THEN header \o pieces ELSE header

\* the deque of make_function_header once name, class_name and the two
\* template declarations are known, joined
HeaderString(fn_cursor, inline, namespace, name, class_name, class_decl, fn_decl) ==
    Concat(
      AppendLeftIf(class_decl # NoStr, class_decl \o <<"\n">>,
        AppendLeftIf(fn_decl # NoStr, fn_decl \o <<"\n">>,
          AppendLeftIf(inline, <<"inline", " ">>,
            add_function_specifiers(fn_cursor,
              AppendLeftIf(/\ fn_cursor.kind # "CONSTRUCTOR"
                           /\ fn_cursor.kind # "DESTRUCTOR"
                           /\ name # SemanticParent(fn_cursor).spelling,
                           format_type_name(fn_cursor.result_type) \o <<" ">>,
                Append(
                  ExtendIf(class_name # NoStr /\ class_name # <<>>,
                           <<class_name, <<"::">>>>,
                           ExtendIf(namespace # <<>>, <<namespace, <<"::">>>>, <<>>)),
                  name \o <<"(">> \o get_args_list(fn_cursor) \o <<")">>)))))))

make_function_header(fn_cursor, inline, namespace) ==
    HeaderString(fn_cursor, inline, namespace,
                 strip_template_args(fn_cursor.spelling),
                 get_member_class_name(fn_cursor),
                 get_template_declaration(SemanticParent(fn_cursor)),
                 get_template_declaration(fn_cursor))

-----------------------------------------------------------------------------
(* Tokens of a declaration (Cursor.get_tokens)                             *)

NoSpaces(str) == SelectSeq(str, LAMBDA a : a # " ")

RECURSIVE ParamTokens(_)
ParamTokens(params) ==
    IF params = <<>> THEN <<>>
    ELSE NoSpaces(Head(params).type) \o Head(params).name
             \o (IF Len(params) > 1 THEN <<",">> ELSE <<>>)
             \o ParamTokens(Tail(params))

\* the tokens of the declaration `ret name(params) quals;`
DeclTokens(kind, name, ret, params, quals) ==
    (IF kind \in {"CONSTRUCTOR", "DESTRUCTOR"} THEN <<>> ELSE NoSpaces(ret))
        \o <<name, "(">> \o ParamTokens(params) \o <<")">> \o quals \o <<";">>

-----------------------------------------------------------------------------
(* The text of a file and the translation unit clang.cindex parses from    *)
(* it (create_translation_unit).  A line is a sequence of items:           *)
(*   ns     `namespace name {`                                             *)
(*   class  `class name {`, a class template when it has targs             *)
(*   close  `}` of the innermost open namespace or class                   *)
(*   decl   a function declaration `ret name(params) quals;`               *)
(*   include `#include "<path>"`                                           *)
(*   text   any other text, as atoms: a preprocessor line, and every line  *)
(*          write_method inserts (a template header, a signature, a body   *)
(*          line).                                                          *)
(* The translation unit is the list of its namespace, class and function   *)
(* cursors in source order, which is the order iterate_cursor visits them. *)
(* A cursor's canonical identity is its qualified name, ent.               *)

NoPayload == [kind |-> "", ret |-> <<>>, params |-> <<>>, targs |-> <<>>, quals |-> <<>>]

NsItem(n)        == [t |-> "ns", name |-> n, s |-> <<>>, d |-> NoPayload]
ClassItem(n, ta) == [t |-> "class", name |-> n, s |-> <<>>,
                     d |-> [NoPayload EXCEPT !.targs = ta]]
CloseItem        == [t |-> "close", name |-> "", s |-> <<>>, d |-> NoPayload]
IncludeItem(f)   == [t |-> "include", name |-> "", s |-> f, d |-> NoPayload]
TextItem(atoms)  == [t |-> "text", name |-> "", s |-> atoms, d |-> NoPayload]
DeclItem(kind, n, ret, params, ta, quals) ==
    [t |-> "decl", name |-> n, s |-> <<>>,
     d |-> [kind |-> kind, ret |-> ret, params |-> params, targs |-> ta,
            quals |-> quals]]

ScopeKinds == {"NAMESPACE", "CLASS_DECL", "CLASS_TEMPLATE"}

Cursor(kind, n, ent, sem, lex, file, line, start, ret, params, ta, tokens) ==
    [kind |-> kind, name |-> n, ent |-> ent, sem |-> sem, lex |-> lex,
     file |-> file, line |-> line, start |-> start, endl |-> 0,
     def |-> tokens # <<>> /\ tokens[Len(tokens)] # ";",
     result_type |-> ret, params |-> params, targs |-> ta, tokens |-> tokens]

\* vim.buffers and the file system map a path to its lines; a buffer has
\* at least one line and the model's files are not empty, so no lines
\* stand for no buffer of that name, and for no file of that name
OpenBuffers(bufs) == {f \in DOMAIN bufs : bufs[f] # <<>>}
FilesOnDisk(disk) == {f \in DOMAIN disk : disk[f] # <<>>}

\* what clang reads for a file: the unsaved buffer handed over by
\* build_unsaved_data when the file is the header or the source of the
\* FileSet and is open, the file on disk otherwise
Content(f, files, bufs, disk) ==
    IF f \in OpenBuffers(bufs) /\ (f = files.header \/ f = files.source)
    THEN bufs[f]
    ELSE IF f \in DOMAIN disk THEN disk[f] ELSE <<>>

RECURSIVE FileEntries(_, _, _)
\* the items of lines i.. of a file, each with its file and line
FileEntries(f, lines, i) ==
    IF i > Len(lines) THEN <<>>
    ELSE [k \in 1..Len(lines[i]) |-> [file |-> f, line |-> i, item |-> lines[i][k]]]
             \o FileEntries(f, lines, i + 1)

RECURSIVE Preprocess(_, _, _, _)
\* the items of the translation unit of a file: an include is replaced by
\* the items of the included file (the model's headers include nothing)
Preprocess(entries, files, bufs, disk) ==
    IF entries = <<>> THEN <<>>
    ELSE LET e == Head(entries) IN
         (IF e.item.t = "include"
          THEN FileEntries(e.item.s, Content(e.item.s, files, bufs, disk), 1)
          ELSE <<e>>) \o Preprocess(Tail(entries), files, bufs, disk)

WordAtom(a) ==
    a \notin {" ", "(", ")", "<", ">", ",", "::", "*", "&", "{", "}", ";", "\n"}

RECURSIVE Tokenize(_, _)
\* the tokens of a text: spaces separate, adjacent words are one word
Tokenize(atoms, word) ==
    LET flush == IF word = "" THEN <<>> ELSE <<word>> IN
    IF atoms = <<>> THEN flush
    ELSE LET a == Head(atoms) IN
         IF WordAtom(a) THEN Tokenize(Tail(atoms), word \o a)
         ELSE IF a \in {" ", "\n"} THEN flush \o Tokenize(Tail(atoms), "")
         ELSE flush \o <<a>> \o Tokenize(Tail(atoms), "")

FirstIndex(toks, x, from) ==
    LET hits == {i \in from..Len(toks) : toks[i] = x}
    IN  IF hits = {} THEN 0 ELSE CHOOSE i \in hits : \A j \in hits : i <= j

LastIndexBefore(toks, x, before) ==
    LET hits == {i \in 1..(before - 1) : toks[i] = x}
    IN  IF hits = {} THEN 0 ELSE CHOOSE i \in hits : \A j \in hits : i >= j

RECURSIVE QualBack(_, _, _)
\* the nested-name-specifier that ends at token j, read backwards: `A::`,
\* `K<T>::`; last is the index of the token before it
QualBack(toks, j, acc) ==
    IF j >= 2 /\ toks[j] = "::"
    THEN IF toks[j - 1] = ">"
         THEN LET lt == LastIndexBefore(toks, "<", j - 1) IN
              IF lt >= 2 THEN QualBack(toks, lt - 2, <<toks[lt - 1]>> \o acc)
              ELSE [qual |-> acc, last |-> j]
         ELSE QualBack(toks, j - 2, <<toks[j - 1]>> \o acc)
    ELSE [qual |-> acc, last |-> j]

TypeWords == {"void", "int", "const", "T", "U", "*", "&"}

\* the spelling clang gives a type written with these tokens
TypeSpelling(toks) == Join(<<" ">>, [i \in 1..Len(toks) |-> <<toks[i]>>])

RECURSIVE DropSpecifiers(_)
DropSpecifiers(toks) ==
    IF toks # <<>> /\ Head(toks) \in {"inline", "constexpr"}
    THEN DropSpecifiers(Tail(toks)) ELSE toks

\* a signature `[inline] ret [qual::]name(params) trailing`: its parts
ParseSig(toks) ==
    LET p    == FirstIndex(toks, "(", 1)
        q    == FirstIndex(toks, ")", p)
        qb   == QualBack(toks, p - 2, <<>>)
        grps == SelectSeq(Split(SubSeq(toks, p + 1, q - 1), ","), LAMBDA g : g # <<>>)
        param(g) ==
            IF Len(g) >= 2 /\ g[Len(g)] \notin TypeWords
            THEN [type |-> TypeSpelling(SubSeq(g, 1, Len(g) - 1)), name |-> <<g[Len(g)]>>]
            ELSE [type |-> TypeSpelling(g), name |-> <<>>]
    IN  [name |-> toks[p - 1], qual |-> qb.qual,
         ret |-> TypeSpelling(DropSpecifiers(SubSeq(toks, 1, qb.last))),
         params |-> [i \in 1..Len(grps) |-> param(grps[i])]]

IsSig(toks) ==
    LET p == FirstIndex(toks, "(", 1) IN p >= 2 /\ FirstIndex(toks, ")", p) > 0

\* the template type parameters a `template<typename T, ...>` line names
TemplateLineArgs(toks) ==
    LET idx == SelectSeq([i \in 1..Len(toks) |-> i],
                         LAMBDA i : i > 1 /\ toks[i - 1] = "typename" /\ WordAtom(toks[i]))
    IN  [k \in 1..Len(idx) |-> <<toks[idx[k]]>>]

ScopePaths(cur) == {cur[i].ent : i \in {j \in 1..Len(cur) : cur[j].kind \in ScopeKinds}}
FunctionPaths(cur) ==
    {cur[i].ent : i \in {j \in 1..Len(cur) : cur[j].kind \in FunctionKinds}}

\* the first cursor of the list whose identity is ent and whose kind is in
\* kinds: 0 when there is none
FirstCursor(cur, ent, kinds) ==
    LET hits == {i \in 1..Len(cur) : cur[i].ent = ent /\ cur[i].kind \in kinds}
    IN  IF hits = {} THEN 0 ELSE CHOOSE i \in hits : \A j \in hits : i <= j

\* C++ lookup of a nested-name-specifier written inside the scope lexpath:
\* its first name is searched from the innermost enclosing scope outwards.
\* <<"?">> when it names no declared scope.
ResolveScope(lexpath, qual, scopes) ==
    IF qual = <<>> THEN lexpath
    ELSE LET ks == {k \in 0..Len(lexpath) :
                       Append(SubSeq(lexpath, 1, k), qual[1]) \in scopes}
         IN  IF ks = {} THEN <<"?">>
             ELSE LET k == CHOOSE a \in ks : \A b \in ks : a >= b
                      full == SubSeq(lexpath, 1, k) \o qual
                  IN  IF full \in scopes THEN full ELSE <<"?">>

NoTemplate == [start |-> 0, lists |-> <<>>]

\* The parse of one item of the translation unit: st is the cursors so far,
\* the stack of open scopes (cursor indices) and the template headers read
\* just before; top is the innermost open scope and lexpath its identity.

TopScope(st) == IF st.stack = <<>> THEN 0 ELSE st.stack[Len(st.stack)]

OpenScope(st, e, top, lexpath, kind, ta) ==
    [cur |-> Append(st.cur, Cursor(kind, e.item.name, Append(lexpath, e.item.name),
                                   lexpath, top, e.file, e.line, e.line,
                                   <<>>, <<>>, ta, <<>>)),
     stack |-> Append(st.stack, Len(st.cur) + 1), tmpl |-> NoTemplate]

\* a signature whose nested-name-specifier names scope, the cursor sc
ParseDefinition(st, e, top, toks, sig, scope, sc) ==
    LET inClass == sc # 0 /\ IsClass(st.cur[sc])
        ofClass == IF sc # 0 /\ st.cur[sc].kind = "CLASS_TEMPLATE" THEN 1 ELSE 0
        ta      == IF Len(st.tmpl.lists) > ofClass
                   THEN st.tmpl.lists[Len(st.tmpl.lists)] ELSE <<>>
        kind    == CASE inClass /\ sig.name = st.cur[sc].name -> "CONSTRUCTOR"
                     [] inClass /\ sig.name = "~" \o st.cur[sc].name -> "DESTRUCTOR"
                     [] ta # <<>> -> "FUNCTION_TEMPLATE"
                     [] OTHER -> IF sc # 0 /\ IsClass(st.cur[sc])
                                 THEN "CXX_METHOD" ELSE "FUNCTION_DECL"
    IN  IF sig.qual = <<>>
           \/ (scope # <<"?">> /\ Append(scope, sig.name) \in FunctionPaths(st.cur))
        THEN [st EXCEPT !.cur = Append(@,
                 Cursor(kind, sig.name, Append(scope, sig.name), scope, top,
                        e.file, e.line,
                        IF st.tmpl.start = 0 THEN e.line ELSE st.tmpl.start,
                        sig.ret, sig.params, ta, toks)),
                        !.tmpl = NoTemplate]
        ELSE [st EXCEPT !.tmpl = NoTemplate]

ParseResolved(st, e, top, toks, sig, scope) ==
    ParseDefinition(st, e, top, toks, sig, scope, FirstCursor(st.cur, scope, ScopeKinds))

ParseText(st, e, top, lexpath, toks) ==
    IF toks # <<>> /\ toks[1] = "template" /\ ~IsSig(toks)
    THEN [st EXCEPT !.tmpl = [start |-> IF @.start = 0 THEN e.line ELSE @.start,
                              lists |-> Append(@.lists, TemplateLineArgs(toks))]]
    ELSE IF IsSig(toks)
    THEN ParseResolved(st, e, top, toks, ParseSig(toks),
                       ResolveScope(lexpath, ParseSig(toks).qual, ScopePaths(st.cur)))
    ELSE [st EXCEPT !.tmpl = NoTemplate]

ParseItem(st, e, top, lexpath) ==
    CASE e.item.t = "ns" -> OpenScope(st, e, top, lexpath, "NAMESPACE", <<>>)
      [] e.item.t = "class" ->
            OpenScope(st, e, top, lexpath,
                      IF e.item.d.targs = <<>> THEN "CLASS_DECL" ELSE "CLASS_TEMPLATE",
                      e.item.d.targs)
      [] e.item.t = "close" ->
            IF top = 0 THEN [st EXCEPT !.tmpl = NoTemplate]
            ELSE [cur |-> [st.cur EXCEPT ![top].endl = e.line],
                  stack |-> SubSeq(st.stack, 1, Len(st.stack) - 1), tmpl |-> NoTemplate]
      [] e.item.t = "decl" ->
            [st EXCEPT !.cur = Append(@,
                 Cursor(e.item.d.kind, e.item.name, Append(lexpath, e.item.name),
                        lexpath, top, e.file, e.line, e.line, e.item.d.ret,
                        e.item.d.params, e.item.d.targs,
                        DeclTokens(e.item.d.kind, e.item.name, e.item.d.ret,
                                   e.item.d.params, e.item.d.quals))),
                       !.tmpl = NoTemplate]
      [] e.item.t = "text" -> ParseText(st, e, top, lexpath, Tokenize(e.item.s, ""))
      [] OTHER -> st

ParseStep(st, e) ==
    ParseItem(st, e, TopScope(st),
              IF TopScope(st) = 0 THEN <<>> ELSE st.cur[TopScope(st)].ent)

RECURSIVE ParseEntries(_, _)
ParseEntries(entries, st) ==
    IF entries = <<>> THEN st.cur
    ELSE ParseEntries(Tail(entries), ParseStep(st, Head(entries)))

\* create_translation_unit(index, source, unsaved_data): the cursors of the
\* translation unit of the file source; <<>> when there is no such file
create_translation_unit(source, files, bufs, disk) ==
    ParseEntries(
        Preprocess(FileEntries(source, Content(source, files, bufs, disk), 1),
                   files, bufs, disk),
        [cur |-> <<>>, stack |-> <<>>, tmpl |-> NoTemplate])

-----------------------------------------------------------------------------
(* methodstub.py: the traversers.  tu is the cursor list of a translation  *)
(* unit and a cursor is its index in tu; 0 is None.  iterate_cursor visits *)
(* the cursors in list order; a traverser returns False for a cursor of    *)
(* another file, which prunes that cursor's children, all of that file.    *)

\* cursor.lexical_parent.canonical; <<>> is the translation unit
LexicalParentCanonical(tu, c) == IF tu[c].lex = 0 THEN <<>> ELSE tu[tu[c].lex].ent

\* cursor.semantic_parent.canonical
SemanticParentCanonical(tu, c) == tu[c].sem

\* cursor.semantic_parent as a cursor: the enclosing scope of a declaration
\* written inside its scope, the scope its qualified name resolves to
\* otherwise
SemanticParentCursor(tu, c) ==
    IF tu[c].sem = LexicalParentCanonical(tu, c) THEN tu[c].lex
    ELSE LET canon == FirstCursor(tu, tu[c].ent, FunctionKinds) IN
         IF canon # 0 /\ tu[canon].sem = LexicalParentCanonical(tu, canon)
         THEN tu[canon].lex
         ELSE FirstCursor(tu, tu[c].sem, ScopeKinds)

RECURSIVE InSubtree(_, _, _)
\* cursor j is root or lexically inside root; everything is inside 0
InSubtree(tu, j, root) ==
    \/ root = 0
    \/ j = root
    \/ (tu[j].lex # 0 /\ InSubtree(tu, tu[j].lex, root))

\* the canonical identities on the semantic_parent chain of a cursor
SemanticAncestors(tu, c) == {SubSeq(tu[c].sem, 1, k) : k \in 1..Len(tu[c].sem)}

\* NamespaceTraverser(source_file, target_fn).traverse(tu.cursor)
NamespaceTraverser(tu, source_file, target_fn) ==
    SelectSeq([i \in 1..Len(tu) |-> i],
              LAMBDA i : /\ tu[i].file = source_file
                         /\ tu[i].kind = "NAMESPACE"
                         /\ tu[i].ent \in SemanticAncestors(tu, target_fn))

\* FollowingFunctionTraverser(source_file, find_fn).traverse(root)
FollowingFunctionTraverser(tu, source_file, find_fn, root) ==
    LET visited(i) == InSubtree(tu, i, root) /\ tu[i].file = source_file
        found_before(i) ==
            \E k \in 1..(i - 1) : visited(k) /\ tu[k].ent = tu[find_fn].ent
                                     /\ tu[k].kind = tu[find_fn].kind
    IN  SelectSeq([i \in 1..Len(tu) |-> i],
                  LAMBDA i : /\ visited(i)
                             /\ is_cursor_function(tu[i])
                             /\ LexicalParentCanonical(tu, i)
                                    = LexicalParentCanonical(tu, find_fn)
                             /\ found_before(i))

\* DefinitionTraverser(source_file, find_fn).traverse(tu.cursor): the dict
\* as the list of its cursors in visiting order; the list of a name is the
\* sublist of the cursors of that name
DefinitionTraverser(tu, source_file, find_fn) ==
    SelectSeq([i \in 1..Len(tu) |-> i],
              LAMBDA i : /\ tu[i].file = source_file
                         /\ is_cursor_function(tu[i])
                         /\ LexicalParentCanonical(tu, i)
                                # SemanticParentCanonical(tu, find_fn))

find_defined_functions(tu, file, target_fn) == DefinitionTraverser(tu, file, target_fn)

get_definition_for_function(tu, definitions, cursor) ==
    LET cur_list == SelectSeq(definitions, LAMBDA i : tu[i].name = tu[cursor].name)
        hits == {k \in 1..Len(cur_list) : tu[cur_list[k]].ent = tu[cursor].ent}
    IN  IF hits = {} THEN 0
        ELSE cur_list[CHOOSE k \in hits : \A j \in hits : k <= j]

find_closest_function_definition(tu, fn_list, definitions) ==
    LET hits == {k \in 1..Len(fn_list) :
                    get_definition_for_function(tu, definitions, fn_list[k]) # 0}
    IN  IF hits = {} THEN 0
        ELSE get_definition_for_function(tu, definitions,
                 fn_list[CHOOSE k \in hits : \A j \in hits : k <= j])

\* get_namespaces(cursor): the canonical identities of the namespaces on
\* the semantic_parent chain, outermost first
get_namespaces(tu, cursor) ==
    SelectSeq([k \in 1..Len(tu[cursor].sem) |-> SubSeq(tu[cursor].sem, 1, k)],
              LAMBDA path : FirstCursor(tu, path, {"NAMESPACE"}) # 0)

get_lexical_namespaces(tu, cursor, source_file) ==
    NamespaceTraverser(tu, source_file, cursor)

get_following_declarations(tu, header_file, fn_cursor) ==
    LET root == SemanticParentCursor(tu, fn_cursor) IN
    IF root # 0 /\ tu[root].file # header_file THEN <<>>
    ELSE FollowingFunctionTraverser(tu, header_file, fn_cursor, root)

get_output_location(tu, above_def, namespaces) ==
    LET line1 == IF above_def # 0 THEN tu[above_def].start - 1 ELSE 0
        line2 == IF line1 = 0 /\ Len(namespaces) > 0
                 THEN tu[namespaces[Len(namespaces)]].endl - 1 ELSE line1
    IN  IF line2 = 0 THEN -1 ELSE line2

RECURSIVE LexicalDepth(_, _, _, _)
\* the first loop of build_namespace_scope_resolution from index i (0-based)
LexicalDepth(tu, namespaces, lexical_namespaces, i) ==
    IF i >= Len(lexical_namespaces) \/ i >= Len(namespaces) THEN i
    ELSE IF namespaces[i + 1] = tu[lexical_namespaces[i + 1]].ent
    THEN LexicalDepth(tu, namespaces, lexical_namespaces, i + 1)
    ELSE i

\* the namespace_parts of build_namespace_scope_resolution
NamespaceParts(tu, namespaces, lexical_namespaces) ==
    LET lexical_depth == LexicalDepth(tu, namespaces, lexical_namespaces, 0)
    IN  [k \in 1..(Len(namespaces) - lexical_depth) |->
            LET path == namespaces[lexical_depth + k] IN <<path[Len(path)]>>]

build_namespace_scope_resolution(tu, namespaces, lexical_namespaces) ==
    Join(<<"::">>, NamespaceParts(tu, namespaces, lexical_namespaces))

\* the function cursor handed to make_function_header
FnView(tu, c) ==
    LET sem == tu[c].sem
        parent(k) ==
            LET sc == FirstCursor(tu, SubSeq(sem, 1, Len(sem) + 1 - k), ScopeKinds)
            IN  [kind |-> tu[sc].kind, spelling |-> <<tu[sc].name>>, targs |-> tu[sc].targs]
    IN  [kind |-> tu[c].kind, spelling |-> <<tu[c].name>>,
         result_type |-> tu[c].result_type, params |-> tu[c].params,
         targs |-> tu[c].targs, tokens |-> tu[c].tokens,
         parents |-> [k \in 1..Len(sem) |-> parent(k)]]

NoStub == [ok |-> FALSE, text |-> <<>>, line |-> 0, definition |-> 0,
           next_def |-> 0, parts |-> <<>>]

\* generate_method_stub without the test of `definition and not force`
GenerateMethodStubUnguarded(tu, cursor, files, force) ==
    LET definitions == find_defined_functions(tu, files.output, cursor)
        definition  == get_definition_for_function(tu, definitions, cursor)
        decl_list   == get_following_declarations(tu, files.header, cursor)
        next_def    == find_closest_function_definition(tu, decl_list, definitions)
        namespaces  == get_namespaces(tu, cursor)
        lexical_namespaces == get_lexical_namespaces(tu, cursor, files.output)
        namespace_str ==
            build_namespace_scope_resolution(tu, namespaces, lexical_namespaces)
        header_string ==
            make_function_header(FnView(tu, cursor), is_output_header(files), namespace_str)
        line == get_output_location(tu, next_def, lexical_namespaces)
    IN  [ok |-> TRUE,
         text |-> Join(<<"\n">>, <<header_string, <<"{">>, <<" ">>, <<"}">>, <<" ">>>>),
         line |-> line, definition |-> definition, next_def |-> next_def,
         parts |-> NamespaceParts(tu, namespaces, lexical_namespaces)]

\* generate_method_stub: ok is FALSE for the None it returns after the
\* 'already defined' error; definition is the cursor the error names
generate_method_stub(tu, cursor, files, force) ==
    LET definitions == find_defined_functions(tu, files.output, cursor)
        definition  == get_definition_for_function(tu, definitions, cursor)
    IN  IF definition # 0 /\ ~force
        THEN [NoStub EXCEPT !.definition = definition]
        ELSE GenerateMethodStubUnguarded(tu, cursor, files, force)

\* `if above_endif` of write_method: make_fn_definition passes the bound
\* method files.is_output_header, not its result, and a bound method is true
AboveEndifIsTrue(files) == TRUE

LineHasEndif(line) ==
    \E k \in 1..Len(line) : line[k].t = "text" /\ Find(line[k].s, <<"#endif">>) >= 0

\* the index write_method inserts at
InsertionIndex(buffer, line, above_endif) ==
    IF line <= 0
    THEN LET hits == {i \in 2..(Len(buffer) - 1) : LineHasEndif(buffer[i + 1])}
         IN  IF above_endif /\ hits # {}
             THEN CHOOSE i \in hits : \A j \in hits : i >= j
             ELSE Len(buffer)
    ELSE line

\* the buffer lines of the Python strings fn_string.split('\n')
StubLines(fn_string) ==
    LET lines == Split(fn_string, "\n")
    IN  [k \in 1..Len(lines) |-> <<TextItem(lines[k])>>]

\* buffer[line:line] = lines
Splice(buffer, line, lines) ==
    SubSeq(buffer, 1, Min(line, Len(buffer))) \o lines
        \o SubSeq(buffer, Min(line, Len(buffer)) + 1, Len(buffer))

\* write_method: the new buffer and the line `normal! <n>G` moves to
write_method(fn_string, buffer, line, above_endif) ==
    LET at    == InsertionIndex(buffer, line, above_endif)
        lines == StubLines(fn_string)
    IN  [buffer |-> Splice(buffer, at, lines), at |-> at, n |-> Len(lines),
         cursor |-> at + Len(lines) - 2]

-----------------------------------------------------------------------------
(* Accessor naming as a state machine: a field cursor is chosen, and       *)
(* accessor.generate_at_location prints its getter and its setter.         *)

MaxFieldLen == 4

FieldAlphabet == {"m", "a", "B", "_"}

ExampleFields ==
    { <<"m","_","u","s","e","r","N","a","m","e">>, <<"_","c","o","u","n","t">>,
      <<"t","o","t","a","l","_">>, <<"p","l","a","i","n">> }

FieldNames == SeqsUpTo(FieldAlphabet, MaxFieldLen) \cup ExampleFields

FieldTypes == { <<"int">>, <<"int", " ", "*">> }

\* no command yet
NoCommand ==
    [op |-> "none", input |-> NoFile, output |-> NoFile, force |-> FALSE,
     line |-> 0, target |-> <<>>, res |-> "none", definition |-> 0,
     next_def |-> 0, loc |-> 0, at |-> 0, n |-> 0, namespaces |-> <<>>,
     parts |-> <<>>]

\* no generate_over_range running
NoRange ==
    [active |-> FALSE, line |-> 0, end |-> 0, force |-> FALSE,
     files |-> NoFileSet, tu |-> <<>>]

EditorIdle ==
    /\ buffers = <<>> /\ diskFiles = <<>> /\ current = NoFile /\ cursorLine = 0
    /\ last = NoCommand /\ rng = NoRange /\ ops = 0

NamingIdle == field = <<>> /\ fieldType = <<>> /\ accessor = <<>>
FilesIdle  ==
    /\ fsName = NoFile /\ fsDisk = {} /\ fsOpen = {} /\ fsInline = FALSE
    /\ fileset = FileSet(NoFile, NoFile, NoFile, NoFile)
HeaderIdle == hdrFn = <<>> /\ hdrInline = FALSE /\ hdrNs = <<>> /\ hdrOut = NoStr

InitNaming ==
    /\ field \in FieldNames
    /\ fieldType \in FieldTypes
    /\ accessor = <<>>
    /\ FilesIdle /\ HeaderIdle /\ EditorIdle

\* accessor.generate_at_location: the two make_fn_decl results it prints
AccessorGenerateAtLocation ==
    /\ accessor = <<>>
    /\ accessor' = << make_fn_decl(fieldType, field, GETTER),
                      make_fn_decl(fieldType, field, SETTER) >>
    /\ UNCHANGED <<field, fieldType, fileVars, headerVars, editorVars>>

NextNaming == AccessorGenerateAtLocation

SpecNaming == InitNaming /\ [][NextNaming]_vars

-----------------------------------------------------------------------------
(* File pairing as a state machine: the edited file, the files on disk and *)
(* the open buffers are chosen, and make_fileset_for_source builds the     *)
(* FileSet of a command.                                                    *)

MaxOtherBuffers == 1

Stem == <<"x">>
Companions == {PlusExt(Stem, header_ext[i]) : i \in 1..3}
                  \cup {PlusExt(Stem, source_ext[i]) : i \in 1..3}
EditedNames == Companions \cup {<<"x", "txt">>, <<"x">>}

InitFiles ==
    /\ fsName \in EditedNames
    /\ fsDisk \in SUBSET Companions
    /\ \E others \in SUBSET Companions :
          /\ Cardinality(others) <= MaxOtherBuffers
          /\ fsOpen = {fsName} \cup others
    /\ fsInline = FALSE
    /\ fileset = NoFileSet
    /\ NamingIdle /\ HeaderIdle /\ EditorIdle

\* generate_under_cursor / generate_range up to the FileSet
MakeFileset ==
    \E force_inline \in BOOLEAN :
        /\ fileset' = make_fileset_for_source(fsName, force_inline, fsOpen, fsDisk)
        /\ fsInline' = force_inline
        /\ UNCHANGED <<fsName, fsDisk, fsOpen, namingVars, headerVars, editorVars>>

NextFiles == MakeFileset

SpecFiles == InitFiles /\ [][NextFiles]_vars

-----------------------------------------------------------------------------
(* Signature synthesis as a state machine: a function cursor of one of the *)
(* supported declaration shapes is chosen, and make_function_header builds *)
(* its header.                                                              *)

MaxTArgs == 2

Scope(kind, name, targs) == [kind |-> kind, spelling |-> <<name>>, targs |-> targs]

NsA      == Scope("NAMESPACE", "A", <<>>)
ClsK     == Scope("CLASS_DECL", "K", <<>>)
ClsKT    == Scope("CLASS_TEMPLATE", "K", <<<<"T">>>>)
ClsOuter == Scope("CLASS_DECL", "Outer", <<>>)
ClsOuterT == Scope("CLASS_TEMPLATE", "Outer", <<<<"U">>>>)
ClsInner == Scope("CLASS_DECL", "Inner", <<>>)
ClsInnerT == Scope("CLASS_TEMPLATE", "Inner", <<<<"T">>>>)

\* semantic_parent chains, nearest first
ParentChains ==
    { <<>>, <<NsA>>, <<ClsK>>, <<ClsK, NsA>>, <<ClsKT>>,
      <<ClsInner, ClsOuter>>, <<ClsInner, ClsOuter, NsA>>,
      <<ClsInnerT, ClsOuter>>, <<ClsInner, ClsOuterT>> }

TypeSpellings == { <<"void">>, <<"int", " ", "*">>, <<"const", " ", "int", " ", "&">> }

ParamLists ==
    { <<>>,
      << [type |-> <<"int">>, name |-> <<"x">>] >>,
      << [type |-> <<"int", " ", "*">>, name |-> <<"p">>],
         [type |-> <<"T">>, name |-> <<>>] >> }

QualifierLists == { <<>>, <<"const">>, <<"noexcept">>, <<"const", "noexcept">> }

TemplateArgLists ==
    {a \in SeqsUpTo({<<"T">>, <<"U">>}, MaxTArgs) :
        \A i, j \in 1..Len(a) : i # j => a[i] # a[j]}

FnCursor(kind, spelling, name, ret, params, targs, quals, parents) ==
    [kind |-> kind, spelling |-> spelling, result_type |-> ret, params |-> params,
     targs |-> targs, tokens |-> DeclTokens(kind, name, ret, params, quals),
     parents |-> parents]

\* the declaration shapes: free and namespace-scoped functions, methods,
\* constructors, destructors, function templates
HeaderCursors ==
    LET plain(ch) ==
            {FnCursor(IF ch # <<>> /\ IsClass(ch[1]) THEN "CXX_METHOD" ELSE "FUNCTION_DECL",
                      <<"f">>, "f", r, ps, <<>>, q, ch) :
                 r \in TypeSpellings, ps \in ParamLists, q \in QualifierLists}
        templ(ch) ==
            {FnCursor("FUNCTION_TEMPLATE", <<"f">>, "f", <<"void">>, ps, ta, <<>>, ch) :
                 ps \in ParamLists, ta \in TemplateArgLists \ {<<>>}}
        ctor(ch) ==
            IF ch # <<>> /\ IsClass(ch[1])
            THEN LET c == ch[1].spelling[1] IN
                 { FnCursor("CONSTRUCTOR",
                            IF ch[1].targs = <<>> THEN <<c>>
                            ELSE <<c, "<">> \o Join(<<",", " ">>, ch[1].targs) \o <<">">>,
                            c, <<"void">>, ps, <<>>, <<>>, ch) : ps \in ParamLists }
                 \cup { FnCursor("DESTRUCTOR", <<"~" \o c>>, "~" \o c, <<"void">>,
                                 <<>>, <<>>, <<>>, ch) }
            ELSE {}
    IN  UNION {plain(ch) \cup templ(ch) \cup ctor(ch) : ch \in ParentChains}

NamespacePrefixes == { <<>>, <<"A">>, <<"A", "::", "B">> }

InitHeader ==
    /\ hdrFn \in HeaderCursors
    /\ hdrInline = FALSE
    /\ hdrNs = <<>>
    /\ hdrOut = NoStr
    /\ NamingIdle /\ FilesIdle /\ EditorIdle

MakeFunctionHeader ==
    \E inline \in BOOLEAN, namespace \in NamespacePrefixes :
        /\ hdrOut' = make_function_header(hdrFn, inline, namespace)
        /\ hdrInline' = inline
        /\ hdrNs' = namespace
        /\ UNCHANGED <<hdrFn, namingVars, fileVars, editorVars>>

NextHeader == MakeFunctionHeader

SpecHeader == InitHeader /\ [][NextHeader]_vars

-----------------------------------------------------------------------------
(* Stub generation in the editor as a state machine.  The user edits a     *)
(* header x.h, with or without a source file x.cpp next to it, and invokes *)
(* generate_under_cursor or generate_range on lines of the current buffer; *)
(* a generate_range is one step for its set-up and one step for every line *)
(* of its loop.  Function names have more than one character, so that the  *)
(* column find_fn_name_from_line returns lies inside the name.             *)

MaxOps      == 2
MaxRangeLen == 2

HPath == <<"x", "h">>
SPath == <<"x", "cpp">>
Files == {HPath, SPath}

Void == <<"void">>
Method(n, params, quals) == DeclItem("CXX_METHOD", n, Void, params, <<>>, quals)
Function(n)              == DeclItem("FUNCTION_DECL", n, Void, <<>>, <<>>, <<>>)

\* #ifndef X_H / namespace A { / class K { / void run(int x) const; /
\* void stop(); / }; / void init(); / } / void free(); / #endif
HeaderClass ==
    << <<TextItem(<<"#ifndef", " ", "X_H">>)>>,
       <<NsItem("A")>>,
       <<ClassItem("K", <<>>)>>,
       <<Method("run", <<[type |-> <<"int">>, name |-> <<"x">>]>>, <<"const">>)>>,
       <<Method("stop", <<>>, <<>>)>>,
       <<CloseItem>>,
       <<Function("init")>>,
       <<CloseItem>>,
       <<Function("free")>>,
       <<TextItem(<<"#endif">>)>> >>

\* namespace A { namespace B { namespace C { / void fa(); / void fb(); / }}}
HeaderNested ==
    << <<NsItem("A"), NsItem("B"), NsItem("C")>>,
       <<Function("fa")>>,
       <<Function("fb")>>,
       <<CloseItem, CloseItem, CloseItem>> >>

\* struct K { void foo(); void bar(); }; inline void K::bar() {}
HeaderOneLine ==
    << <<ClassItem("K", <<>>), Method("foo", <<>>, <<>>), Method("bar", <<>>, <<>>),
         CloseItem,
         TextItem(<<"inline", " ", "void", " ", "K", "::", "bar", "(", ")", " ",
                    "{", "}">>)>> >>

Include == <<IncludeItem(HPath)>>

\* #include "x.h" / void helper();
SourceHelper == <<Include, <<Function("helper")>>>>
\* #include "x.h" / namespace A { / } / void A::K::stop() / { / }
SourceStop ==
    <<Include, <<NsItem("A")>>, <<CloseItem>>,
      <<TextItem(<<"void", " ", "A", "::", "K", "::", "stop", "(", ")">>)>>,
      <<TextItem(<<"{">>)>>, <<TextItem(<<"}">>)>> >>
\* #include "x.h" / namespace A { namespace B { / }}
SourceOpenAB == <<Include, <<NsItem("A"), NsItem("B")>>, <<CloseItem, CloseItem>>>>
\* #include "x.h" / namespace A { namespace B { / }} / namespace A { / }
SourceReopenA ==
    <<Include, <<NsItem("A"), NsItem("B")>>, <<CloseItem, CloseItem>>,
      <<NsItem("A")>>, <<CloseItem>>>>
\* #include "x.h" / #ifdef DEBUG / void helper(); / #endif
SourceGuarded ==
    <<Include, <<TextItem(<<"#ifdef", " ", "DEBUG">>)>>, <<Function("helper")>>,
      <<TextItem(<<"#endif">>)>>>>

NoSource == <<>>

\* the header and the source file of the scenarios
Scenarios ==
    {<<HeaderClass, SourceHelper>>, <<HeaderClass, SourceStop>>,
     <<HeaderClass, NoSource>>, <<HeaderNested, SourceOpenAB>>,
     <<HeaderNested, SourceReopenA>>, <<HeaderOneLine, NoSource>>,
     <<HeaderOneLine, SourceGuarded>>}

InitEditor ==
    /\ \E sc \in Scenarios :
          /\ diskFiles = (HPath :> sc[1]) @@ (SPath :> sc[2])
          /\ buffers = (HPath :> sc[1]) @@ (SPath :> <<>>)
    /\ current = HPath
    /\ cursorLine = 1
    /\ last = NoCommand
    /\ rng = NoRange
    /\ ops = 0
    /\ NamingIdle /\ FilesIdle /\ HeaderIdle

\* the function cursors of a line of a file, in source order
FunctionsOnLine(tu, file, line) ==
    SelectSeq([i \in 1..Len(tu) |-> i],
              LAMBDA i : tu[i].file = file /\ tu[i].line = line
                            /\ is_cursor_function(tu[i]))

\* get_function_cursor_on_line(tu, location, buffer) for a location of the
\* line: on is the number of the function of the line the location lies on,
\* 0 when it lies on none; then find_fn_name_from_line finds the last
\* parenthesis pair of the line
get_function_cursor_on_line(tu, file, line, on) ==
    LET fns == FunctionsOnLine(tu, file, line) IN
    IF fns = <<>> THEN 0
    ELSE IF on \in 1..Len(fns) THEN fns[on]
    ELSE fns[Len(fns)]

\* whether a line of text starts with a function: column 1 lies on it
StartsWithFunction(text) ==
    text # <<>> /\ (text[1].t = "decl"
                    \/ (text[1].t = "text" /\ IsSig(Tokenize(text[1].s, ""))))

HoldsFunction(text) ==
    \E k \in 1..Len(text) :
        text[k].t = "decl" \/ (text[k].t = "text" /\ IsSig(Tokenize(text[k].s, "")))

\* the lines the user invokes a command on: every line that holds a
\* function, and the first of the lines that hold none
InvocationLines(buffer) ==
    LET all  == 1..Len(buffer)
        some == {i \in all : HoldsFunction(buffer[i])}
        none == all \ some
    IN  some \cup {i \in none : \A j \in none : i <= j}

\* what a command that found the function cursor records
CommandRecord(tu, cursor, files, force, op, line, stub) ==
    [NoCommand EXCEPT
        !.op = op, !.input = files.input, !.output = files.output,
        !.force = force, !.line = line, !.target = tu[cursor].ent,
        !.definition = IF stub.definition = 0 THEN 0 ELSE tu[stub.definition].line]

\* the buffers once files.output is loaded: `e` reads it from the disk
OutputLoaded(files) ==
    IF files.output \in OpenBuffers(buffers) THEN buffers
    ELSE [buffers EXCEPT ![files.output] = diskFiles[files.output]]

\* the second half of make_fn_definition: the switch to the output buffer
\* and write_method, whose effect is w
WriteStub(tu, cursor, files, stub, w, rec) ==
    /\ buffers' = [OutputLoaded(files) EXCEPT ![files.output] = w.buffer]
    /\ current' = files.output
    /\ cursorLine' = w.cursor
    /\ last' = [rec EXCEPT
                   !.res = "inserted", !.loc = stub.line, !.at = w.at, !.n = w.n,
                   !.next_def = IF stub.next_def = 0 THEN 0
                                ELSE tu[stub.next_def].start,
                   !.namespaces = get_namespaces(tu, cursor),
                   !.parts = stub.parts]

\* make_fn_definition from the result of generate_method_stub on
MakeFnDefinitionFrom(tu, cursor, files, force, op, line, stub) ==
    IF stub.ok
    THEN WriteStub(tu, cursor, files, stub,
                   write_method(stub.text, OutputLoaded(files)[files.output],
                                stub.line, AboveEndifIsTrue(files)),
                   CommandRecord(tu, cursor, files, force, op, line, stub))
    ELSE /\ UNCHANGED <<buffers, current>>
         /\ cursorLine' = IF op = "cursor" THEN line ELSE cursorLine
         /\ last' = [CommandRecord(tu, cursor, files, force, op, line, stub)
                        EXCEPT !.res = "defined"]

\* make_fn_definition(tu, cursor, files, force) in the command op invoked
\* on line
make_fn_definition(tu, cursor, files, force, op, line) ==
    MakeFnDefinitionFrom(tu, cursor, files, force, op, line,
                         generate_method_stub(tu, cursor, files, force))

\* generate_at_location(tu, files, line, col, force)
generate_at_location(tu, files, line, on, force) ==
    LET cursor == get_function_cursor_on_line(tu, files.input, line, on) IN
    IF cursor = 0
    THEN /\ UNCHANGED <<buffers, current>>
         /\ cursorLine' = line
         /\ last' = [NoCommand EXCEPT
                        !.op = "cursor", !.input = files.input,
                        !.output = files.output, !.force = force,
                        !.line = line, !.res = "nofn"]
    ELSE make_fn_definition(tu, cursor, files, force, "cursor", line)

\* generate_under_cursor(force_inline, force_generation) with the cursor on
\* a line of the current buffer
GenerateUnderCursor ==
    /\ ~rng.active
    /\ ops < MaxOps
    /\ \E force_inline \in BOOLEAN, force_generation \in BOOLEAN :
          LET files == make_fileset_for_source(current, force_inline,
                           OpenBuffers(buffers), FilesOnDisk(diskFiles))
              tu    == create_translation_unit(files.output, files, buffers, diskFiles)
          IN  \E line \in InvocationLines(buffers[current]) :
              \E on \in 0..Len(FunctionsOnLine(tu, files.input, line)) :
                  generate_at_location(tu, files, line, on, force_generation)
    /\ ops' = ops + 1
    /\ UNCHANGED <<diskFiles, rng, namingVars, fileVars, headerVars>>

\* generate_range(start_line, end_line, force_inline, force_generation) up
\* to the loop of generate_over_range
GenerateRange ==
    /\ ~rng.active
    /\ ops < MaxOps
    /\ \E force_inline \in BOOLEAN, force_generation \in BOOLEAN :
       \E start_line \in InvocationLines(buffers[current]) :
       \E end_line \in start_line..Min(start_line + MaxRangeLen - 1,
                                       Len(buffers[current])) :
          LET files == make_fileset_for_source(current, force_inline,
                           OpenBuffers(buffers), FilesOnDisk(diskFiles))
              tu    == create_translation_unit(files.output, files, buffers, diskFiles)
          IN  /\ rng' = [active |-> TRUE, line |-> start_line, end |-> end_line,
                         force |-> force_generation, files |-> files, tu |-> tu]
              /\ last' = [NoCommand EXCEPT
                             !.op = "range", !.input = files.input,
                             !.output = files.output, !.force = force_generation]
    /\ ops' = ops + 1
    /\ UNCHANGED <<buffers, diskFiles, current, cursorLine,
                   namingVars, fileVars, headerVars>>

\* one iteration of the loop of generate_over_range
RangeStep ==
    /\ rng.active
    /\ rng.line <= rng.end
    /\ LET files  == rng.files
           in_buf == buffers[files.input]
           on     == IF StartsWithFunction(in_buf[rng.line]) THEN 1 ELSE 0
           cursor == get_function_cursor_on_line(rng.tu, files.input, rng.line, on)
       IN  IF cursor # 0
           THEN /\ make_fn_definition(rng.tu, cursor, files, rng.force, "range", rng.line)
                /\ rng' = [rng EXCEPT
                              !.line = @ + 1,
                              !.tu = create_translation_unit(files.output, files,
                                                             buffers', diskFiles)]
           ELSE /\ UNCHANGED <<buffers, current, cursorLine>>
                /\ last' = [NoCommand EXCEPT
                               !.op = "range", !.input = files.input,
                               !.output = files.output, !.force = rng.force,
                               !.line = rng.line, !.res = "nofn"]
                /\ rng' = [rng EXCEPT !.line = @ + 1]
    /\ UNCHANGED <<diskFiles, ops, namingVars, fileVars, headerVars>>

\* the end of the loop of generate_over_range
RangeEnd ==
    /\ rng.active
    /\ rng.line > rng.end
    /\ rng' = NoRange
    /\ UNCHANGED <<buffers, diskFiles, current, cursorLine, last, ops,
                   namingVars, fileVars, headerVars>>

\* the user goes to the other file: `:b` when it is open, `:e` otherwise
SwitchBuffer ==
    /\ ~rng.active
    /\ \E f \in FilesOnDisk(diskFiles) \cup OpenBuffers(buffers) :
          /\ f # current
          /\ buffers' = IF f \in OpenBuffers(buffers) THEN buffers
                        ELSE [buffers EXCEPT ![f] = diskFiles[f]]
          /\ current' = f
    /\ cursorLine' = 1
    /\ UNCHANGED <<diskFiles, last, rng, ops, namingVars, fileVars, headerVars>>

Next == GenerateUnderCursor \/ GenerateRange \/ RangeStep \/ RangeEnd \/ SwitchBuffer

Spec == InitEditor /\ [][Next]_vars

-----------------------------------------------------------------------------
(* Claims about accessor naming (SpecNaming)                               *)

StartsWith(str, pre) == Len(str) >= Len(pre) /\ SubSeq(str, 1, Len(pre)) = pre
EndsWith(str, suf) ==
    Len(str) >= Len(suf) /\ SubSeq(str, Len(str) - Len(suf) + 1, Len(str)) = suf

Capitalized(w) == IF w = <<>> THEN w ELSE <<ToUpper(w[1])>> \o Tail(w)

\* the derivation as the specification words it: one of 'm_', '_' (leading)
\* or '_' (trailing) stripped, the rest split on '_', the first letter of
\* each fragment upper-cased and the other letters kept; the whole name when
\* nothing matches
NameAsSpecified(f) ==
    LET rest == IF StartsWith(f, <<"m", "_">>) THEN SubSeq(f, 3, Len(f))
                ELSE IF StartsWith(f, <<"_">>) THEN Tail(f)
                ELSE IF EndsWith(f, <<"_">>) THEN SubSeq(f, 1, Len(f) - 1)
                ELSE f
        words == Split(rest, "_")
    IN  Concat([i \in 1..Len(words) |-> Capitalized(words[i])])

GetterAsSpecified(type, f) ==
    format_type_name(type) \o <<" ">> \o <<"g","e","t">> \o NameAsSpecified(f)
        \o <<"(", ")", " ", "const">>

\* C6: the getter printed for a field is 'get' followed by the name derived
\* by stripping one prefix or suffix, splitting on '_' and upper-casing the
\* first letter of each fragment with the other letters kept (m_userName ->
\* getUserName, _count -> getCount, total_ -> getTotal, plain -> getPlain).
C6_GetterNameAsSpecified ==
    accessor # <<>> => accessor[1] = GetterAsSpecified(fieldType, field)

-----------------------------------------------------------------------------
(* Claims about file pairing (SpecFiles)                                   *)

Built == fileset.input # NoFile

Ext(path) == path[Len(path)]
HeaderRole(path) == Ext(path) \in {"hpp", "hxx", "h"}
SourceRole(path) == Ext(path) \in {"cpp", "cxx", "c"}

\* a companion of the edited file with a source extension is an open buffer
\* or exists on disk
SourceCompanionFound ==
    \E i \in 1..3 :
        PlusExt(SubSeq(fsName, 1, Len(fsName) - 1), source_ext[i]) \in fsOpen \cup fsDisk

\* C8: output is header or source; it is the source file exactly when a
\* source companion was found and force_inline is false, and the header in
\* every other case.
C8_OutputIsHeaderOrSource ==
    Built =>
        /\ fileset.output = fileset.header \/ fileset.output = fileset.source
        /\ (SourceCompanionFound /\ ~fsInline)
              <=> (fileset.output = fileset.source /\ fileset.source # NoFile)
        /\ ~(SourceCompanionFound /\ ~fsInline) => fileset.output = fileset.header

C8_Witness ==
    /\ Built /\ SourceCompanionFound /\ ~fsInline
    /\ fileset.header # NoFile
    /\ fileset.output = fileset.source /\ fileset.output # fileset.header

\* C9: a path whose extension already has the requested role comes back
\* unchanged from get_header_file / get_source_file, whatever companions
\* exist.
C9_SameRoleUnchanged ==
    Built =>
        /\ HeaderRole(fsName) => fileset.header = fsName
        /\ SourceRole(fsName) => fileset.source = fsName

-----------------------------------------------------------------------------
(* Claims about the signature synthesizer (SpecHeader)                     *)

IsSubstring(sub, str) == Find(str, sub) >= 0

EnclosingClasses(cursor) == SelectSeq(cursor.parents, IsClass)

\* the class scope of an out-of-line definition: the enclosing classes
\* outermost first, the template arguments on the innermost class
ClassScopeAsSpecified(cursor) ==
    LET classes == EnclosingClasses(cursor)
        n == Len(classes)
        template_args == classes[1].targs
    IN  Join(<<"::">>, [i \in 1..n |-> classes[n + 1 - i].spelling])
            \o (IF Len(template_args) > 0
                THEN <<"<">> \o Join(<<",", " ">>, template_args) \o <<">">>
                ELSE <<>>)

\* C10: for a method of a class nested in other classes the header names
\* the class scope outermost first and ending with the declaring class,
\* Outer::Inner::name(, the template arguments on the innermost class.
C10_NestedClassScopeOutermostFirst ==
    (hdrOut # NoStr /\ Len(EnclosingClasses(hdrFn)) >= 2) =>
        IsSubstring(ClassScopeAsSpecified(hdrFn) \o <<"::">>
                        \o strip_template_args(hdrFn.spelling) \o <<"(">>,
                    hdrOut)

\* 'template<typename P1, typename P2, ..., typename Pn>'
TemplateHeaderAsSpecified(template_args) ==
    <<"template", "<">>
        \o Join(<<",", " ">>,
                [i \in 1..Len(template_args) |-> <<"typename", " ">> \o template_args[i]])
        \o <<">">>

\* a string is one of the lines of a text
IsLineOf(str, text) == \E k \in 1..Len(Split(text, "\n")) : Split(text, "\n")[k] = str

\* C13: for a function template, and for a method of a class template, with
\* the template type parameters P1..Pn in declaration order, the header has
\* the line 'template<typename P1, typename P2, ..., typename Pn>': each
\* name after 'typename' and one space, the parameters separated by ', '.
C13_TemplateHeaderNamesEveryParameter ==
    hdrOut # NoStr =>
        /\ get_template_args(hdrFn) # <<>> =>
              IsLineOf(TemplateHeaderAsSpecified(get_template_args(hdrFn)), hdrOut)
        /\ get_template_args(SemanticParent(hdrFn)) # <<>> =>
              IsLineOf(TemplateHeaderAsSpecified(get_template_args(SemanticParent(hdrFn))),
                       hdrOut)

\* the parenthesis depth in front of token i
DepthBefore(tokens, i) ==
    Cardinality({k \in 1..(i - 1) : tokens[k] = "("})
        - Cardinality({k \in 1..(i - 1) : tokens[k] = ")"})

\* the index of the parenthesis that closes the parameter list, 0 when the
\* tokens have none
ParamListEnd(tokens) ==
    LET closes == {i \in 1..Len(tokens) : tokens[i] = ")" /\ DepthBefore(tokens, i) = 1}
    IN  IF closes = {} THEN 0 ELSE CHOOSE i \in closes : \A j \in closes : i <= j

\* the tokens at depth 0 after the parameter list and before the body
TrailingTokens(tokens) ==
    LET from   == ParamListEnd(tokens)
        braces == {i \in 1..Len(tokens) : tokens[i] = "{"}
        to     == IF braces = {} THEN Len(tokens)
                  ELSE (CHOOSE i \in braces : \A j \in braces : i <= j) - 1
    IN  IF from = 0 THEN {}
        ELSE {tokens[i] : i \in {k \in (from + 1)..to : DepthBefore(tokens, k) = 0}}

\* the words of a header after the parenthesis that closes its arguments
TrailingWords(header) ==
    LET closes == {i \in 1..Len(header) : header[i] = ")"}
        last_close == CHOOSE i \in closes : \A j \in closes : i >= j
    IN  {header[i] : i \in (last_close + 1)..Len(header)}

\* C14: the header ends with ' const' (' noexcept') exactly when a const
\* (noexcept) token stands at parenthesis depth 0 after the parenthesis that
\* closes the parameter list and before the body; a const in front of the
\* parameter list, as in the return type, adds no trailing qualifier.
C14_TrailingQualifiersOnlyAfterParameters ==
    hdrOut # NoStr =>
        \A q \in {"const", "noexcept"} :
            (q \in TrailingWords(hdrOut)) <=> (q \in TrailingTokens(hdrFn.tokens))

-----------------------------------------------------------------------------
(* Claims about stub generation in the editor (Spec)                       *)

\* a step of a command that looked for a function: generate_under_cursor,
\* or one line of generate_range
LookupStep == (ops' # ops /\ last'.op = "cursor") \/ (rng.active /\ rng'.line = rng.line + 1)

\* the translation unit of a file as clang reads it from the open buffers
\* and the disk, in the state
TranslationUnitOf(output) ==
    create_translation_unit(output, FileSet(SPath, HPath, HPath, output),
                            buffers, diskFiles)

\* the first line of text[from..to] that holds a function, 0 when none does
FirstFunctionLine(text, from, to) ==
    LET hits == {i \in from..Min(to, Len(text)) : HoldsFunction(text[i])}
    IN  IF hits = {} THEN 0 ELSE CHOOSE i \in hits : \A j \in hits : i <= j

\* C1: when generation is invoked a second time at a declaration whose stub
\* was inserted by an invocation with force=false, again with force=false,
\* the second invocation reports the function as already defined, at the
\* line of the definition the first one inserted, and changes no buffer.
C1_SecondGenerationReportsDefined ==
    [][(/\ last.res = "inserted" /\ ~last.force
        /\ ops' # ops /\ last'.op = "cursor" /\ ~last'.force
        /\ last'.target = last.target /\ last'.line = last.line
        /\ last'.input = last.input /\ last'.output = last.output)
       => (/\ last'.res = "defined"
           /\ last'.definition = FirstFunctionLine(buffers[last.output],
                                                   last.at + 1, last.at + last.n)
           /\ buffers' = buffers)]_vars

\* C2: when the lookup finds a definition of the target and force is false,
\* the command reports that the function is already defined and changes
\* nothing: the buffers, the current buffer and the cursor stay as they were.
C2_DefinedWithoutForceChangesNothing ==
    [][(LookupStep /\ last'.definition # 0 /\ ~last'.force)
       => (/\ last'.res = "defined"
           /\ buffers' = buffers
           /\ current' = current
           /\ cursorLine' = IF last'.op = "cursor" THEN last'.line ELSE cursorLine)]_vars

C2_Witness ==
    /\ last.op = "cursor" /\ last.res = "defined" /\ ~last.force
    /\ last.definition # 0 /\ last.target # <<>>

RECURSIVE OpenScopes(_, _)
\* the scopes left open by the items of a text, innermost last: the
\* qualified name of a namespace, <<>> for a class
OpenScopes(items, stack) ==
    IF items = <<>> THEN stack
    ELSE LET it  == Head(items)
             top == IF stack = <<>> \/ stack[Len(stack)] = <<>> THEN <<>>
                    ELSE stack[Len(stack)]
         IN  OpenScopes(Tail(items),
                CASE it.t = "ns"    -> Append(stack, Append(top, it.name))
                  [] it.t = "class" -> Append(stack, <<>>)
                  [] it.t = "close" -> SubSeq(stack, 1, Len(stack) - 1)
                  [] OTHER          -> stack)

\* the namespaces open after the first n lines of a text
OpenNamespacesAfter(text, n) ==
    LET stack == OpenScopes(Concat(SubSeq(text, 1, n)), <<>>)
    IN  {stack[k] : k \in 1..Len(stack)} \ {<<>>}

\* C3: the namespace prefix of an inserted stub names exactly the
\* namespaces of the declaration that are not open at the line the stub is
\* inserted at, outermost first.
C3_PrefixIsNamespacesNotOpen ==
    last.res = "inserted" =>
        LET open    == OpenNamespacesAfter(buffers[last.output], last.at)
            missing == SelectSeq(last.namespaces, LAMBDA path : path \notin open)
        IN  last.parts = [k \in 1..Len(missing) |-> <<missing[k][Len(missing[k])]>>]

\* the declaration a command was invoked on: its cursor in tu
InvokedCursor(tu, rec) ==
    LET hits == {i \in 1..Len(tu) : /\ tu[i].ent = rec.target
                                    /\ tu[i].file = rec.input
                                    /\ tu[i].line = rec.line
                                    /\ is_cursor_function(tu[i])}
    IN  IF hits = {} THEN 0 ELSE CHOOSE i \in hits : \A j \in hits : i <= j

\* the first function declared after cursor c in the same lexical scope of
\* the header
NextDeclaration(tu, c) ==
    LET hits == {j \in (c + 1)..Len(tu) : /\ is_cursor_function(tu[j])
                                          /\ tu[j].file = HPath
                                          /\ tu[j].lex = tu[c].lex}
    IN  IF hits = {} THEN 0 ELSE CHOOSE j \in hits : \A k \in hits : j <= k

\* the out-of-line definition of the function of cursor j in a file
OutOfLineDefinition(tu, j, file) ==
    LET hits == {d \in 1..Len(tu) : /\ tu[d].def /\ tu[d].ent = tu[j].ent
                                    /\ tu[d].file = file
                                    /\ tu[d].sem # LexicalParentCanonical(tu, d)}
    IN  IF hits = {} THEN 0 ELSE CHOOSE d \in hits : \A k \in hits : d <= k

\* C4: when the declaration that follows the target in its scope of the
\* header has an out-of-line definition in the output file, the stub is
\* inserted immediately above that definition, whatever line it starts on.
C4_InsertedAboveNextDefinition ==
    [][(LookupStep /\ last'.res = "inserted")
       => LET tu   == TranslationUnitOf(last'.output)
              c    == InvokedCursor(tu, last')
              next == IF c = 0 \/ tu[c].file # HPath THEN 0 ELSE NextDeclaration(tu, c)
              def  == IF next = 0 THEN 0 ELSE OutOfLineDefinition(tu, next, last'.output)
          IN  def # 0 => last'.at = tu[def].start - 1]_vars

\* a definition of the function of cursor c in a file
HasDefinition(tu, c, file) ==
    \E d \in 1..Len(tu) : tu[d].def /\ tu[d].ent = tu[c].ent /\ tu[d].file = file

\* C5: a range command visits its lines in increasing order; on a line that
\* holds the declaration of a function without a definition in the output
\* file it inserts one stub, on a line that holds no function or a function
\* defined there it inserts nothing (force=false); the translation unit it goes on with is
\* parsed from the buffers as they are after the insertion.
C5_OneInsertionPerUndefinedDeclaration ==
    [][(rng.active /\ rng.line <= rng.end /\ rng' # rng)
       => LET files == rng.files
              tu    == TranslationUnitOf(files.output)
              fns   == FunctionsOnLine(tu, files.input, rng.line)
          IN  /\ rng'.active /\ rng'.line = rng.line + 1
              /\ rng'.tu = create_translation_unit(files.output, files, buffers', diskFiles)
              /\ (~rng.force /\ Len(fns) <= 1) =>
                    IF fns # <<>> /\ ~HasDefinition(tu, fns[1], files.output)
                    THEN /\ last'.res = "inserted"
                         /\ buffers'[files.output]
                               = Splice(IF buffers[files.output] = <<>>
                                        THEN diskFiles[files.output]
                                        ELSE buffers[files.output],
                                        last'.at,
                                        SubSeq(buffers'[files.output],
                                               last'.at + 1, last'.at + last'.n))
                    ELSE buffers' = buffers /\ last'.res # "inserted"]_vars

\* C7: a command invoked on a function in a source file reports
\* AmbiguousFileRole: it does not go on to look for a definition, and it
\* generates nothing.
C7_SourceInputIsRejected ==
    (last.op # "none" /\ last.target # <<>> /\ SourceRole(last.input))
        => last.res = "AmbiguousFileRole"


\* the functions declared after cursor c in its lexical scope of the header
FollowingDeclarations(tu, c) ==
    {j \in (c + 1)..Len(tu) : /\ is_cursor_function(tu[j])
                              /\ tu[j].file = HPath
                              /\ tu[j].lex = tu[c].lex}

\* the namespaces enclosing cursor c that have a block in a file, as the
\* lengths of their qualified names
NamespacesOpenIn(tu, c, file) ==
    {k \in 1..Len(tu[c].sem) :
        \E i \in 1..Len(tu) : /\ tu[i].kind = "NAMESPACE" /\ tu[i].file = file
                              /\ tu[i].ent = SubSeq(tu[c].sem, 1, k)}

\* the blocks in a file of the innermost namespace enclosing cursor c that
\* has one; no block when no enclosing namespace is open in the file
InnermostNamespaceBlocks(tu, c, file) ==
    LET open == NamespacesOpenIn(tu, c, file) IN
    IF open = {} THEN {}
    ELSE LET k == CHOOSE m \in open : \A j \in open : m >= j
         IN  {i \in 1..Len(tu) : /\ tu[i].kind = "NAMESPACE" /\ tu[i].file = file
                                 /\ tu[i].ent = SubSeq(tu[c].sem, 1, k)}

\* C11: for a command invoked on a declaration of the header, when no
\* declaration that follows it in its scope has a definition in the output
\* file, the stub is inserted on the line before
\* the closing brace of the innermost enclosing namespace that is open in
\* the output file, also when an outer namespace is opened again later in
\* the file; the append-at-end sentinel is returned only when no enclosing
\* namespace is open in the output file.
C11_InsertedAtEndOfInnermostNamespace ==
    [][(LookupStep /\ last'.res = "inserted" /\ last'.input = HPath)
       => LET tu == TranslationUnitOf(last'.output)
              c  == InvokedCursor(tu, last')
          IN  (/\ c # 0 /\ ~tu[c].def
               /\ \A j \in FollowingDeclarations(tu, c) :
                     ~HasDefinition(tu, j, last'.output))
              => LET blocks == InnermostNamespaceBlocks(tu, c, last'.output)
                 IN  IF blocks = {} THEN last'.loc <= 0
                     ELSE \E b \in blocks : /\ last'.loc = tu[b].endl - 1
                                            /\ last'.at = tu[b].endl - 1]_vars


\* the text of a file a command writes into: its buffer, read from the disk
\* when the file is not open
TextBefore(file) == IF buffers[file] = <<>> THEN diskFiles[file] ELSE buffers[file]

\* C12: when get_output_location returns the sentinel, the role of the
\* output file decides where the stub goes: it is appended after the last
\* line of a source file, and it is inserted above the closing '#endif' line
\* only when the output file is the header.
C12_SentinelPlacementFollowsFileRole ==
    [][(LookupStep /\ last'.res = "inserted" /\ last'.loc <= 0)
       => LET old == TextBefore(last'.output)
          IN  /\ SourceRole(last'.output) => last'.at = Len(old)
              /\ last'.at # Len(old) =>
                    /\ HeaderRole(last'.output)
                    /\ LineHasEndif(old[last'.at + 1])
              /\ (HeaderRole(last'.output) /\ Len(old) >= 3 /\ LineHasEndif(old[Len(old)]))
                    => last'.at = Len(old) - 1]_vars

=============================================================================
